---- MODULE Spec2Model ----
(***************************************************************************)
(* A model of stubhub_value_alert.py: the parsing of rendered text blocks  *)
(* into Listings, the qualification predicate, the fingerprint based       *)
(* deduplication and the polling loop of main() with its NEW and DIGEST    *)
(* notifications, together with the heartbeat thread.                      *)
(*                                                                         *)
(* Conventions.  A Python Optional is a sequence of length 0 (None) or 1.  *)
(* Scores are held in tenths (9.5 is 95), as the score pattern admits one  *)
(* fractional digit.  A text is a sequence of tokens: what the regular     *)
(* expressions of the extractors can match.                                *)
(***************************************************************************)
EXTENDS Integers, Sequences, FiniteSets, TLC

(***************************************************************************)
(* Configuration (the module level constants read from the environment).   *)
(***************************************************************************)
MIN_VALUE_SCORE == 95

CHECK_INTERVAL_SECONDS == 300

MIN_TICKETS == 2

DIGEST_INTERVAL_SECONDS == 3600

DIGEST_TOP_N == 15

\* new_hits_sorted[:12]
NEW_TOP_K == 12

\* PUSHOVER_USER_KEY and PUSHOVER_API_TOKEN are both set
PUSHOVER_CONFIGURED == TRUE

\* The value of STUBHUB_EVENT_URL when it is set
URL == "https://www.stubhub.com/event/1"

(***************************************************************************)
(* Bounds of the model.                                                    *)
(***************************************************************************)
\* number of distinct listing patterns the rendered page can show
CatalogueSize == 22

\* the polling loop is followed until the clock has advanced this far
MaxElapsed == 900

\* as MaxElapsed, for the specification of the digest cadence
MaxElapsedCadence == 7500

\* the heartbeat's log lines and the idle sleeps are counted modulo these
HbWrap == 2

NapWrap == 2

\* the quantities and the scores qualifies() is applied to: 0..MaxQty tickets,
\* scores within ScoreSpread tenths of MIN_VALUE_SCORE
MaxQty == 3

ScoreSpread == 2

\* time.time() when main() starts (seconds since the epoch)
START_TIME == 1700000000

(***************************************************************************)
(* Values.                                                                 *)
(***************************************************************************)
None == <<>>

Some(x) == <<x>>

Min(S) == CHOOSE x \in S : \A y \in S : x <= y

Tok(k, v, x) == [k |-> k, v |-> v, x |-> x]

\* Listing(section, row, qty, price_incl_fees, value_score, rating_word, url)
Listing(section, row, qty, price, score, word, url) ==
    [section |-> section, row |-> row, qty |-> qty, price_incl_fees |-> price,
     value_score |-> score, rating_word |-> word, url |-> url]

\* The price strings extract_price_incl_fees returns: "$36 incl. fees",
\* "$36" and "Unknown".
PriceText(amt, sfx) == [txt |-> "$", amt |-> amt, sfx |-> sfx]

UnknownPrice == [txt |-> "Unknown", amt |-> 0, sfx |-> ""]

(***************************************************************************)
(* Parsing.                                                                *)
(***************************************************************************)
\* re.split(r"\bShowing\s+\d+\s+of\s+\d+\b", t, maxsplit=1)[0]
BeforeShowing(t) ==
    LET at == {i \in 1..Len(t) : t[i].k = "Showing"}
    IN  IF at = {} THEN t ELSE SubSeq(t, 1, Min(at) - 1)

\* re.split(r"(?=\bSection\s+[A-Za-z0-9]+\b)", t): a new part opens at every
\* Section token; the first part is what precedes the first of them.
SplitParts(t) ==
    LET starts == {i \in 1..Len(t) : t[i].k = "Section"}
        nth(n) == CHOOSE i \in starts : Cardinality({j \in starts : j < i}) = n - 1
        stop(i) == Min({j \in starts : j > i} \cup {Len(t) + 1}) - 1
        first  == SubSeq(t, 1, stop(0))
    IN  <<first>> \o [n \in 1..Cardinality(starts) |-> SubSeq(t, nth(n), stop(nth(n)))]

\* split_into_listing_chunks cutting at the first Section anchor only
split_at_first_anchor_only(block_text) ==
    LET t      == BeforeShowing(block_text)
        starts == {i \in 1..Len(t) : t[i].k = "Section"}
    IN  IF starts = {} THEN <<>> ELSE <<SubSeq(t, Min(starts), Len(t))>>

split_into_listing_chunks(block_text) ==
    LET t     == BeforeShowing(block_text)
        parts == SplitParts(t)
    IN  SelectSeq(parts, LAMBDA p : p # <<>> /\ p[1].k = "Section")

\* re.search: the first token of the kind in the chunk, if any
FirstOf(chunk, kind) ==
    LET at == {i \in 1..Len(chunk) : chunk[i].k = kind}
    IN  IF at = {} THEN None ELSE Some(chunk[Min(at)])

extract_qty(chunk) ==
    LET m == FirstOf(chunk, "tickets")
    IN  IF m # None THEN m[1].v ELSE 0

extract_section_row(chunk) ==
    LET ms == FirstOf(chunk, "Section")
        mr == FirstOf(chunk, "Row")
    IN  <<IF ms # None THEN ms[1].x ELSE "Unknown",
          IF mr # None THEN mr[1].x ELSE "Unknown">>

extract_price_incl_fees(chunk) ==
    LET incl == {i \in 1..Len(chunk) : chunk[i].k = "$" /\ chunk[i].x = "incl"}
        m    == FirstOf(chunk, "$")
    IN  IF incl # {} THEN PriceText(chunk[Min(incl)].v, " incl. fees")
        ELSE IF m # None THEN PriceText(m[1].v, "")
        ELSE UnknownPrice

extract_score_and_word(chunk) ==
    LET m == FirstOf(chunk, "score")
    IN  IF m = None THEN <<None, None>> ELSE <<Some(m[1].v), Some(m[1].x)>>

\* qualifies with the quantity test written without its "l.qty and"
qualifies_rejecting_unknown_qty(l) ==
    IF l.qty < MIN_TICKETS THEN FALSE
    ELSE IF l.value_score = None THEN FALSE
    ELSE l.value_score[1] >= MIN_VALUE_SCORE

qualifies(l) ==
    IF l.qty # 0 /\ l.qty < MIN_TICKETS THEN FALSE
    ELSE IF l.value_score = None THEN FALSE
    ELSE l.value_score[1] >= MIN_VALUE_SCORE

\* price_num returning 0.0 for a price without digits
price_num_unparsed_as_zero(price_incl) ==
    IF price_incl.txt = "$" THEN <<0, price_incl.amt>> ELSE <<0, 0>>

\* float(m) if m else 1e18.  The value is the pair <<hi, lo>> standing for
\* hi * 10^9 + lo, so that 1e18 is <<10^9, 0>>.
price_num(price_incl) ==
    IF price_incl.txt = "$" THEN <<0, price_incl.amt>> ELSE <<1000000000, 0>>

\* "Score 9.9 Amazing | Section 101 Row 5 | Qty 2 | $36 incl. fees"
format_listing(l) ==
    [score |-> l.value_score, word |-> l.rating_word, section |-> l.section,
     row |-> l.row, qty |-> l.qty, price |-> l.price_incl_fees]

\* the price string of a Listing, as extract_price_incl_fees built it
PriceString(price) ==
    IF price.txt = "$" THEN "$" \o ToString(price.amt) \o price.sfx ELSE "Unknown"

\* str() of an Optional[float] holding one fractional digit: "9.7", "None"
ScoreString(score) ==
    IF score = None THEN "None"
    ELSE ToString(score[1] \div 10) \o "." \o ToString(score[1] % 10)

\* str() of an Optional[str]
WordString(word) == IF word = None THEN "None" ELSE word[1]

\* the f-string of line 103 written without its "|" separators
fingerprint_raw_unseparated(l) ==
    l.section \o l.row \o ToString(l.qty) \o PriceString(l.price_incl_fees)
    \o ScoreString(l.value_score) \o WordString(l.rating_word) \o l.url

\* raw = f"{section}|{row}|{qty}|{price}|{score}|{word}|{url}"
fingerprint_raw(l) ==
    l.section \o "|" \o l.row \o "|" \o ToString(l.qty) \o "|"
    \o PriceString(l.price_incl_fees) \o "|" \o ScoreString(l.value_score) \o "|"
    \o WordString(l.rating_word) \o "|" \o l.url

\* hashlib.sha256(raw.encode("utf-8")).hexdigest(): the digest stands for the
\* string it was computed from, two strings having the same digest only by a
\* collision of the hash
sha256_hexdigest(raw) == "sha256:" \o raw

listing_fingerprint(l) == sha256_hexdigest(fingerprint_raw(l))

(***************************************************************************)
(* The sort of the notifications:                                          *)
(*   sorted(..., key=lambda l: (-(l.value_score or 0.0), price_num(...)))  *)
(***************************************************************************)
SortKey(l) ==
    <<-(IF l.value_score = None THEN 0 ELSE l.value_score[1]),
      price_num(l.price_incl_fees)>>

\* the order of Python tuples: a <= b
KeyLeq(a, b) ==
    \/ a[1] < b[1]
    \/ /\ a[1] = b[1]
       /\ \/ a[2][1] < b[2][1]
          \/ a[2][1] = b[2][1] /\ a[2][2] <= b[2][2]

\* sorted(s, key=...) on a list of Listings.  The sort is stable: s[i] comes
\* after the elements of smaller key and after the earlier ones of equal key.
sorted_listings(s) ==
    LET key  == [i \in 1..Len(s) |-> SortKey(s[i])] \o <<>>
        rank == [i \in 1..Len(s) |->
                   Cardinality({j \in 1..Len(s) :
                                  \/ ~KeyLeq(key[i], key[j])
                                  \/ KeyLeq(key[j], key[i]) /\ j <= i})] \o <<>>
    IN  [n \in 1..Len(s) |-> s[CHOOSE i \in 1..Len(s) : rank[i] = n]]

\* s[:k]
Take(s, k) == SubSeq(s, 1, IF Len(s) < k THEN Len(s) ELSE k)

(***************************************************************************)
(* The rendered page.  The catalogue is the text of the listing entries    *)
(* the marketplace can show; a page shows a run of them.                   *)
(***************************************************************************)
\* the text of entry i: "Section 101 Row 2 $32 incl. fees 2 tickets 9.7 Great"
CatalogueChunk(i) ==
    LET kind  == i % 10
        score == IF kind = 3 THEN 94
                 ELSE IF i % 3 = 0 THEN 99 ELSE IF i % 3 = 1 THEN 97 ELSE 95
        word  == IF i % 3 = 0 THEN "Amazing" ELSE "Great"
        qty   == IF kind = 6 THEN 1 ELSE IF kind = 8 THEN 4 ELSE 2
    IN  <<Tok("Section", 0, ToString(100 + i)), Tok("Row", 0, ToString(1 + (i % 3)))>>
        \o (IF kind = 4 THEN <<>>
            ELSE <<Tok("$", 30 + 2 * (i % 4), IF i % 2 = 0 THEN "incl" ELSE "")>>)
        \o (IF kind = 7 THEN <<>> ELSE <<Tok("tickets", qty, "")>>)
        \o (IF kind = 9 THEN <<>> ELSE <<Tok("score", score, word)>>)
        \o (IF kind \in {3, 9} THEN <<Tok("text", 0, "Great deal")>> ELSE <<>>)

RECURSIVE ConcatChunks(_, _)
\* the entries lo..hi, concatenated as virtualized rendering does
ConcatChunks(lo, hi) ==
    IF lo > hi THEN <<>> ELSE CatalogueChunk(lo) \o ConcatChunks(lo + 1, hi)

\* extract_blocks_from_root / extract_blocks_global: the inner texts of the
\* candidate nodes.  With ov the list's ancestor node is a candidate too,
\* and its inner text repeats the entries.
PageBlocks(p) ==
    LET blk == <<Tok("text", 0, "View Listings")>>
               \o ConcatChunks(p.lo, p.lo + p.n - 1)
               \o <<Tok("Showing", 0, ""), Tok("Section", 0, "900")>>
    IN  IF p.n = 0 THEN <<>> ELSE IF p.ov THEN <<blk, blk>> ELSE <<blk>>

Pages ==
    {[lo |-> 1, n |-> 0, ov |-> FALSE]}
    \cup {p \in [lo : {1, 3}, n : {1, CatalogueSize}, ov : BOOLEAN] :
            p.lo + p.n - 1 <= CatalogueSize}

CadencePages == {p \in Pages : p.n <= 1 /\ ~p.ov /\ p.lo = 1}

\* lines 390-410: one chunk to zero or one Listing
ChunkListings(c, event_url) ==
    LET qty   == extract_qty(c)
        sr    == extract_section_row(c)
        price == extract_price_incl_fees(c)
        sw    == extract_score_and_word(c)
    IN  IF sr[1] = "Unknown" /\ sr[2] = "Unknown" /\ price = UnknownPrice
        THEN <<>>
        ELSE <<Listing(sr[1], sr[2], qty, price, sw[1], sw[2], event_url)>>

\* for c in split_into_listing_chunks(b): ...
ChunksListings(chunks, event_url) ==
    LET kept == SelectSeq(chunks, LAMBDA c : ChunkListings(c, event_url) # <<>>)
    IN  [n \in 1..Len(kept) |-> ChunkListings(kept[n], event_url)[1]]

RECURSIVE BlocksListings(_, _, _)
\* for b in blocks: ...
BlocksListings(blocks, i, event_url) ==
    IF i > Len(blocks) THEN <<>>
    ELSE ChunksListings(split_into_listing_chunks(blocks[i]), event_url)
         \o BlocksListings(blocks, i + 1, event_url)

\* lines 389-410: blocks -> chunks -> listings
parse_blocks(blocks, event_url) == BlocksListings(blocks, 1, event_url)

\* for each page the browser can render, what scrape_listings(URL) returns
ScrapeTable == {<<p, parse_blocks(PageBlocks(p), URL)>> : p \in Pages}

\* scrape_listings(EVENT_URL) when the browser renders page p
scrape_listings(p) == (CHOOSE r \in ScrapeTable : r[1] = p)[2]

(***************************************************************************)
(* State.                                                                  *)
(***************************************************************************)
VARIABLES
    EVENT_URL,       \* STUBHUB_EVENT_URL: "" when it is not set
    pc,              \* where main() is
    hbStarted,       \* the heartbeat thread runs
    hbLogs,          \* "[heartbeat] process alive" lines, modulo HbWrap
    naps,            \* time.sleep(60) calls of the idle loop, modulo NapWrap
    stateFile,       \* STATE_FILE: [ok |-> it holds a JSON list, data |-> its set]
    seen,            \* main's seen
    loaded,          \* load_seen() has been called
    loadedSeen,      \* what load_seen() returned
    clock,           \* time.time()
    last_digest_ts,  \* main's last_digest_ts
    cycle,           \* number of cycles started
    listings,        \* Some(the listings of the latest scrape), None if it raised
    qualifying,      \* main's qualifying
    new_hits,        \* main's new_hits: <<fingerprint, listing>> pairs
    sameAsPrev,      \* this cycle scraped what the cycle before it scraped
    prevNew,         \* newOutcome of the cycle before this one
    raisedHits,      \* the fingerprints of its new hits, if its NEW delivery raised
    seenAtStart,     \* seen when this cycle started
    fileAtStart,     \* stateFile when this cycle started
    newOutcome,      \* this cycle's NEW notification: none, delivered, raised
    newLines,        \* the lines of the NEW message handed to pushover_notify
    digestOutcome,   \* this cycle's digest: none, notdue, delivered, raised
    digestMsg,       \* the digest message handed to pushover_notify
    digestTimes,     \* when the last two digests were handed to it, latest first
    raisedAt,        \* the step of this cycle that raised: "" if none
    alerted,         \* fingerprints among the hits of a delivered NEW notification
    alertedTwice,    \* those that were there more than once
    shown,           \* fingerprints of the lines of a delivered NEW notification
    qChunk,          \* a chunk of text given to the extractors
    qListing,        \* Some(the Listing built from qChunk), None before that
    qResult,         \* Some(qualifies(that Listing)), None before that
    fpInput,         \* two chunks of text, each with the URL it was scraped from
    fpResult,        \* Some(their Listings, fingerprints and new hits), None before
    segInput,        \* the listing patterns a block of text is made of
    segResult        \* Some(the Listings parsed from that block), None before

vars ==
    <<EVENT_URL, pc, hbStarted, hbLogs, naps, stateFile, seen, loaded,
      loadedSeen, clock, last_digest_ts, cycle, listings, qualifying, new_hits,
      sameAsPrev, prevNew, raisedHits, seenAtStart, fileAtStart, newOutcome, newLines,
      digestOutcome, digestMsg, digestTimes, raisedAt, alerted, alertedTwice, shown,
      qChunk, qListing, qResult, fpInput, fpResult, segInput, segResult>>

configVars == <<EVENT_URL>>

pureVars == <<qChunk, qListing, qResult, fpInput, fpResult, segInput, segResult>>

hbVars == <<hbStarted, hbLogs>>

storeVars == <<stateFile, seen, loaded, loadedSeen>>

scrapeVars == <<listings, qualifying, new_hits, sameAsPrev, prevNew, raisedHits,
                seenAtStart, fileAtStart, cycle>>

newVars == <<newOutcome, newLines, alerted, alertedTwice, shown>>

digestVars == <<last_digest_ts, digestOutcome, digestMsg, digestTimes>>

NoDigest == [kind |-> "none", lines |-> <<>>, total |-> 0]

\* the listing of catalogue entry i, as a scrape of URL yields it
CatalogueListing(i) == ChunkListings(CatalogueChunk(i), URL)[1]

\* STATE_FILE before the process starts: absent, or left by an earlier run
InitialFiles ==
    {[ok |-> FALSE, data |-> {}],
     [ok |-> TRUE, data |-> {listing_fingerprint(CatalogueListing(2))}]}

InitMain ==
    /\ EVENT_URL \in {"", URL}
    /\ pc = "start"
    /\ hbStarted = FALSE
    /\ hbLogs = 0
    /\ naps = 0
    /\ stateFile \in InitialFiles
    /\ seen = {}
    /\ loaded = FALSE
    /\ loadedSeen = {}
    /\ clock = START_TIME
    /\ last_digest_ts = 0
    /\ cycle = 0
    /\ listings = None
    /\ qualifying = <<>>
    /\ new_hits = <<>>
    /\ sameAsPrev = FALSE
    /\ prevNew = "none"
    /\ raisedHits = {}
    /\ seenAtStart = {}
    /\ fileAtStart = stateFile
    /\ newOutcome = "none"
    /\ newLines = <<>>
    /\ digestOutcome = "none"
    /\ digestMsg = NoDigest
    /\ digestTimes = <<>>
    /\ raisedAt = ""
    /\ alerted = {}
    /\ alertedTwice = {}
    /\ shown = {}

Init ==
    /\ InitMain
    /\ qChunk = <<>>
    /\ qListing = None
    /\ qResult = None
    /\ fpInput = <<>>
    /\ fpResult = None
    /\ segInput = [lead |-> FALSE, patterns |-> <<>>]
    /\ segResult = None

(***************************************************************************)
(* Collaborators.                                                          *)
(***************************************************************************)
\* load_seen(): the set in the file, the empty set on any failure
load_seen(file) == IF file.ok THEN file.data ELSE {}

\* save_seen without its try/except: a failure of open or json.dump is raised
save_seen_uncaught(file, s) ==
    {[file |-> [ok |-> TRUE, data |-> s], raised |-> FALSE],
     [file |-> file, raised |-> TRUE],
     [file |-> [ok |-> FALSE, data |-> {}], raised |-> TRUE]}

\* save_seen(seen): what the file can hold afterwards, and whether the call
\* raised.  A failure is caught and logged, and leaves the file as it was
\* (open failed) or cut short (the dump failed).
save_seen(file, s) ==
    {[file |-> [ok |-> TRUE, data |-> s], raised |-> FALSE],
     [file |-> file, raised |-> FALSE],
     [file |-> [ok |-> FALSE, data |-> {}], raised |-> FALSE]}

\* pushover_notify(title, message): it prints when Pushover is not configured,
\* else it posts, and raise_for_status or the post itself may raise
pushover_notify == IF PUSHOVER_CONFIGURED THEN {"delivered", "raised"} ELSE {"delivered"}

\* result[i] = F applied to s[i]
FormatLines(s) == [i \in 1..Len(s) |-> format_listing(s[i])]

Fingerprints(s) == {listing_fingerprint(s[i]) : i \in 1..Len(s)}

\* the listings of main's (fp, l) pairs
HitListings(hits) == [i \in 1..Len(hits) |-> hits[i][2]]

HitFingerprints(hits) == {hits[i][1] : i \in 1..Len(hits)}

(***************************************************************************)
(* main().                                                                 *)
(***************************************************************************)
\* lines 439-442 without the sleep loop: main goes on to load_seen and the loop
MainStartIdleFallingThrough ==
    /\ pc = "start"
    /\ EVENT_URL = ""
    /\ hbStarted' = TRUE
    /\ seen' = IF stateFile.ok THEN stateFile.data ELSE {}
    /\ loaded' = TRUE
    /\ loadedSeen' = seen'
    /\ last_digest_ts' = 0
    /\ pc' = "scrape"
    /\ UNCHANGED <<configVars, pureVars, hbLogs, naps, stateFile, clock, scrapeVars,
                   newVars, digestOutcome, digestMsg, digestTimes, raisedAt>>

\* lines 437-442: no event URL, sleep forever
MainStartIdle ==
    /\ pc = "start"
    /\ EVENT_URL = ""
    /\ hbStarted' = TRUE
    /\ pc' = "idle"
    /\ UNCHANGED <<configVars, pureVars, hbLogs, naps, storeVars, clock, scrapeVars,
                   newVars, digestVars, raisedAt>>

\* while True: time.sleep(60)
IdleSleep ==
    /\ pc = "idle"
    /\ naps' = (naps + 1) % NapWrap
    /\ UNCHANGED <<configVars, pureVars, pc, hbVars, storeVars, clock, scrapeVars,
                   newVars, digestVars, raisedAt>>

\* lines 437-445: the loop is entered
MainStartLoop ==
    /\ pc = "start"
    /\ EVENT_URL # ""
    /\ hbStarted' = TRUE
    /\ seen' = load_seen(stateFile)
    /\ loaded' = TRUE
    /\ loadedSeen' = load_seen(stateFile)
    /\ last_digest_ts' = 0
    /\ pc' = "scrape"
    /\ UNCHANGED <<configVars, pureVars, hbLogs, naps, stateFile, clock, scrapeVars,
                   newVars, digestOutcome, digestMsg, digestTimes, raisedAt>>

\* [l for l in listings if (l.qty == 0 or l.qty >= MIN_TICKETS)]
qty_ok(ls) == SelectSeq(ls, LAMBDA l : l.qty = 0 \/ l.qty >= MIN_TICKETS)

\* the loop of lines 457-460 without its "if fp not in seen"
NewHitsIgnoringSeen(qual, seenNow) ==
    [i \in 1..Len(qual) |-> <<listing_fingerprint(qual[i]), qual[i]>>]

\* lines 456-460
NewHits(qual, seenNow) ==
    LET fresh == SelectSeq(qual, LAMBDA l : listing_fingerprint(l) \notin seenNow)
    IN  [i \in 1..Len(fresh) |-> <<listing_fingerprint(fresh[i]), fresh[i]>>]

\* lines 448-460: the scrape of one cycle and what main computes from it
Scrape(pages) ==
    /\ pc = "scrape"
    /\ cycle' = cycle + 1
    /\ prevNew' = newOutcome
    /\ raisedHits' = IF newOutcome = "raised" THEN HitFingerprints(new_hits) ELSE {}
    /\ seenAtStart' = seen
    /\ fileAtStart' = stateFile
    /\ newOutcome' = "none"
    /\ newLines' = <<>>
    /\ digestOutcome' = "none"
    /\ digestMsg' = NoDigest
    /\ \/ \E p \in pages :
            LET ls   == scrape_listings(p)
                qual == SelectSeq(qty_ok(ls), qualifies)
                hits == NewHits(qual, seen)
            IN  /\ listings' = Some(ls)
                /\ qualifying' = qual
                /\ new_hits' = hits
                /\ sameAsPrev' = (listings = Some(ls))
                /\ raisedAt' = ""
                /\ pc' = IF hits # <<>> THEN "notify_new" ELSE "digest"
       \/ /\ listings' = None
          /\ sameAsPrev' = FALSE
          /\ raisedAt' = "scrape"
          /\ pc' = "sleep"
          /\ UNCHANGED <<qualifying, new_hits>>
    /\ UNCHANGED <<configVars, pureVars, hbVars, naps, storeVars, clock, last_digest_ts,
                   digestTimes, alerted, alertedTwice, shown>>

\* sorted(new_hits, key=...) orders the pairs by their listings
new_hits_sorted(hits) == sorted_listings(HitListings(hits))

\* fingerprints that occur more than once among the hits
Repeated(hits) ==
    {hits[i][1] : i \in {j \in 1..Len(hits) :
                           \E k \in 1..Len(hits) : k # j /\ hits[k][1] = hits[j][1]}}

\* lines 472-473 assigning the new fingerprints to seen instead of adding them
SeenReplacedAfterNotify(r, seenNow, hits) ==
    IF r = "delivered" THEN HitFingerprints(hits) ELSE seenNow

\* the adds of lines 472-473 placed before the call of pushover_notify
SeenAddedBeforeNotify(r, seenNow, hits) == seenNow \cup HitFingerprints(hits)

\* lines 470-473: the fingerprints are added once pushover_notify has
\* returned; when it raises, the adds are not reached
SeenAfterNotify(r, seenNow, hits) ==
    IF r = "delivered" THEN seenNow \cup HitFingerprints(hits) ELSE seenNow

\* lines 462-475
NotifyNew ==
    /\ pc = "notify_new"
    /\ LET top == Take(new_hits_sorted(new_hits), NEW_TOP_K)
       IN  /\ newLines' = FormatLines(top)
           /\ \E r \in pushover_notify :
                /\ newOutcome' = r
                /\ seen' = SeenAfterNotify(r, seen, new_hits)
                /\ \/ /\ r = "delivered"
                      /\ \E saved \in save_seen(stateFile, seen') :
                            /\ stateFile' = saved.file
                            /\ raisedAt' = IF saved.raised THEN "save" ELSE raisedAt
                            /\ pc' = IF saved.raised THEN "sleep" ELSE "digest"
                      /\ alerted' = alerted \cup HitFingerprints(new_hits)
                      /\ alertedTwice' = alertedTwice
                                         \cup (alerted \cap HitFingerprints(new_hits))
                                         \cup Repeated(new_hits)
                      /\ shown' = shown \cup Fingerprints(top)
                   \/ /\ r = "raised"
                      /\ raisedAt' = "new"
                      /\ pc' = "sleep"
                      /\ UNCHANGED <<stateFile, alerted, alertedTwice, shown>>
    /\ UNCHANGED <<configVars, pureVars, hbVars, naps, loaded, loadedSeen, clock,
                   scrapeVars, digestVars>>

\* lines 483-499 with no message built for an empty top_n
DigestMessageSkippingEmpty(qual) ==
    LET qualifying_sorted == sorted_listings(qual)
        top_n == Take(qualifying_sorted, DIGEST_TOP_N)
    IN  IF top_n # <<>>
        THEN [kind |-> "top", lines |-> FormatLines(top_n),
              total |-> Len(qualifying_sorted)]
        ELSE [kind |-> "none", lines |-> <<>>, total |-> 0]

\* lines 483-499: the message of the digest
DigestMessage(qual) ==
    LET qualifying_sorted == sorted_listings(qual)
        top_n == Take(qualifying_sorted, DIGEST_TOP_N)
    IN  IF top_n # <<>>
        THEN [kind |-> "top", lines |-> FormatLines(top_n),
              total |-> Len(qualifying_sorted)]
        ELSE [kind |-> "empty", lines |-> <<>>, total |-> 0]

\* line 481 with > for >=
digest_due_strictly_after(now, last) == now - last > DIGEST_INTERVAL_SECONDS

\* line 481: (now - last_digest_ts) >= DIGEST_INTERVAL_SECONDS
digest_due(now, last) == now - last >= DIGEST_INTERVAL_SECONDS

\* lines 479-502
DigestCheck ==
    /\ pc = "digest"
    /\ LET now == clock
       IN  IF digest_due(now, last_digest_ts)
           THEN /\ last_digest_ts' = now
                /\ digestMsg' = DigestMessage(qualifying)
                /\ digestTimes' = <<now>> \o Take(digestTimes, 1)
                /\ \E r \in pushover_notify :
                     /\ digestOutcome' = r
                     /\ raisedAt' = IF r = "raised" THEN "digest" ELSE raisedAt
           ELSE /\ digestOutcome' = "notdue"
                /\ UNCHANGED <<last_digest_ts, digestMsg, digestTimes, raisedAt>>
    /\ pc' = "sleep"
    /\ UNCHANGED <<configVars, pureVars, hbVars, naps, storeVars, clock, scrapeVars, newVars>>

\* line 507 sleeping twice as long after a cycle that raised
SleepBackingOff(maxElapsed) ==
    /\ pc = "sleep"
    /\ clock + 2 * CHECK_INTERVAL_SECONDS - START_TIME <= maxElapsed
    /\ clock' = clock + (IF raisedAt # "" THEN 2 ELSE 1) * CHECK_INTERVAL_SECONDS
    /\ pc' = "scrape"
    /\ UNCHANGED <<configVars, pureVars, hbVars, naps, storeVars, scrapeVars, newVars,
                   digestVars, raisedAt>>

\* line 507: time.sleep(CHECK_INTERVAL_SECONDS)
Sleep(maxElapsed) ==
    /\ pc = "sleep"
    /\ clock + CHECK_INTERVAL_SECONDS - START_TIME <= maxElapsed
    /\ clock' = clock + CHECK_INTERVAL_SECONDS
    /\ pc' = "scrape"
    /\ UNCHANGED <<configVars, pureVars, hbVars, naps, storeVars, scrapeVars, newVars,
                   digestVars, raisedAt>>

\* the heartbeat thread clearing seen and the digest timer as it logs
HeartbeatResettingState ==
    /\ hbStarted
    /\ hbLogs' = (hbLogs + 1) % HbWrap
    /\ seen' = {}
    /\ last_digest_ts' = 0
    /\ UNCHANGED <<configVars, pureVars, pc, hbStarted, naps, stateFile, loaded,
                   loadedSeen, clock, scrapeVars, newVars, digestOutcome, digestMsg,
                   digestTimes, raisedAt>>

\* lines 421-426: the heartbeat thread
Heartbeat ==
    /\ hbStarted
    /\ hbLogs' = (hbLogs + 1) % HbWrap
    /\ UNCHANGED <<configVars, pureVars, pc, hbStarted, naps, storeVars, clock, scrapeVars,
                   newVars, digestVars, raisedAt>>

Next ==
    \/ MainStartIdle
    \/ IdleSleep
    \/ MainStartLoop
    \/ Scrape(Pages)
    \/ NotifyNew
    \/ DigestCheck
    \/ Sleep(MaxElapsed)
    \/ Heartbeat

Spec == Init /\ [][Next]_vars

\* Both threads keep being scheduled: main's thread does not stop before or
\* in its idle loop, nor the heartbeat's in its own loop.
FairSpec ==
    /\ Spec
    /\ WF_vars(MainStartIdle)
    /\ WF_vars(IdleSleep)
    /\ WF_vars(Heartbeat)

\* the same program, followed for longer on fewer pages
NextCadence ==
    \/ MainStartIdle
    \/ IdleSleep
    \/ MainStartLoop
    \/ Scrape(CadencePages)
    \/ NotifyNew
    \/ DigestCheck
    \/ Sleep(MaxElapsedCadence)
    \/ Heartbeat

SpecCadence == Init /\ [][NextCadence]_vars

\* the same program on the pages of the cadence, followed up to MaxElapsed
NextLoop ==
    \/ MainStartIdle
    \/ IdleSleep
    \/ MainStartLoop
    \/ Scrape(CadencePages)
    \/ NotifyNew
    \/ DigestCheck
    \/ Sleep(MaxElapsed)
    \/ Heartbeat

\* main's thread keeps running: the scrape, the posts to Pushover (each with
\* its timeout) and the sleep all return or raise, and the next statement is
\* then executed.
FairLoopSpec ==
    /\ Init
    /\ [][NextLoop]_vars
    /\ WF_vars(MainStartLoop)
    /\ WF_vars(Scrape(CadencePages))
    /\ WF_vars(NotifyNew)
    /\ WF_vars(DigestCheck)
    /\ WF_vars(Sleep(MaxElapsed))

(***************************************************************************)
(* The extractors and qualifies() applied to one chunk of text.            *)
(***************************************************************************)
\* the phrases a chunk can carry besides its fields ("" for none)
ChunkPhrases == {"", "Great deal", "GREAT DEAL", "Fair price"}

\* "Section 101 Row 5 $36 incl. fees <q> tickets <s> Amazing <phrase>", with
\* the tickets, the score and the phrase each present or not
InputChunk(qty, score, phrase) ==
    <<Tok("Section", 0, "101"), Tok("Row", 0, "5"), Tok("$", 36, "incl")>>
    \o (IF qty = None THEN <<>> ELSE <<Tok("tickets", qty[1], "")>>)
    \o (IF score = None THEN <<>> ELSE <<Tok("score", score[1], "Amazing")>>)
    \o (IF phrase = "" THEN <<>> ELSE <<Tok("text", 0, phrase)>>)

InputChunks ==
    {InputChunk(q, s, ph) :
        q \in {None} \cup {Some(n) : n \in 0..MaxQty},
        s \in {None} \cup {Some(MIN_VALUE_SCORE + d) : d \in (0 - ScoreSpread)..ScoreSpread},
        ph \in ChunkPhrases}

InitQualifies ==
    /\ InitMain
    /\ qChunk \in InputChunks
    /\ qListing = None
    /\ qResult = None
    /\ fpInput = <<>>
    /\ fpResult = None
    /\ segInput = [lead |-> FALSE, patterns |-> <<>>]
    /\ segResult = None

\* lines 392-410 and 451 on one chunk
ApplyQualifies ==
    /\ qResult = None
    /\ LET built == ChunkListings(qChunk, URL)
       IN  /\ built # <<>>
           /\ qListing' = Some(built[1])
           /\ qResult' = Some(qualifies(built[1]))
    /\ UNCHANGED <<configVars, pc, hbVars, naps, storeVars, clock, scrapeVars,
                   newVars, digestVars, raisedAt, qChunk, fpInput, fpResult,
                   segInput, segResult>>

NextQualifies == ApplyQualifies

SpecQualifies == InitQualifies /\ [][NextQualifies]_vars

(***************************************************************************)
(* listing_fingerprint() and the test of lines 457-460 applied to two       *)
(* chunks of text: the first has been alerted, the second is scraped next.  *)
(***************************************************************************)
\* what the fields of the two chunks are drawn from ("10" + "15" and
\* "101" + "5" are the same digits in a row)
PairSections == {"101", "10"}

PairRows == {"5", "15"}

PairQtys == {None, Some(MIN_TICKETS)}

PairPrices == {None, Some(Tok("$", 36, "incl")), Some(Tok("$", 36, "")),
               Some(Tok("$", 40, ""))}

PairScores == {None, Some(Tok("score", 97, "Great")), Some(Tok("score", 97, "None")),
               Some(Tok("score", 99, "Great"))}

PairUrls == {URL, URL \o "?quantity=2"}

PairChunk(section, row, qty, price, score) ==
    <<Tok("Section", 0, section), Tok("Row", 0, row)>>
    \o price
    \o (IF qty = None THEN <<>> ELSE <<Tok("tickets", qty[1], "")>>)
    \o score

PairInputs ==
    {[chunk |-> PairChunk(sec, row, q, pr, sc), url |-> u] :
        sec \in PairSections, row \in PairRows, q \in PairQtys, pr \in PairPrices,
        sc \in PairScores, u \in PairUrls}

InitFingerprint ==
    /\ InitMain
    /\ qChunk = <<>>
    /\ qListing = None
    /\ qResult = None
    /\ fpInput \in PairInputs \X PairInputs
    /\ fpResult = None
    /\ segInput = [lead |-> FALSE, patterns |-> <<>>]
    /\ segResult = None

\* lines 392-410 on both chunks, listing_fingerprint on both Listings, then
\* lines 450-460 on the second one with the first one's fingerprint in seen
ApplyFingerprint ==
    /\ fpResult = None
    /\ LET a  == ChunkListings(fpInput[1].chunk, fpInput[1].url)[1]
           b  == ChunkListings(fpInput[2].chunk, fpInput[2].url)[1]
           fa == listing_fingerprint(a)
           fb == listing_fingerprint(b)
       IN  fpResult' = Some([a |-> a, b |-> b, fa |-> fa, fb |-> fb,
                             hits |-> NewHits(SelectSeq(qty_ok(<<b>>), qualifies),
                                              {fa})])
    /\ UNCHANGED <<configVars, pc, hbVars, naps, storeVars, clock, scrapeVars,
                   newVars, digestVars, raisedAt, qChunk, qListing, qResult, fpInput,
                   segInput, segResult>>

NextFingerprint == ApplyFingerprint

SpecFingerprint == InitFingerprint /\ [][NextFingerprint]_vars

(***************************************************************************)
(* lines 390-410 applied to one block that is the text of several listing   *)
(* patterns in a row.                                                       *)
(***************************************************************************)
\* a block holds at most this many patterns
MaxPatterns == 5

\* "Section 101 Row 5 ... $36 incl. fees ... 2 tickets ... 9.9 Amazing"
Pattern(section, row, amt, incl, qty, score, word) ==
    [section |-> section, row |-> row, amt |-> amt, incl |-> incl, qty |-> qty,
     score |-> score, word |-> word]

SegPatterns ==
    {Pattern("101", "5", 36, TRUE, 2, 99, "Amazing"),
     Pattern("A-1", "12", 40, FALSE, 4, 95, "Great"),
     Pattern("102", "GA", 1250, TRUE, 1, 100, "Amazing")}

\* the text of a pattern, with other words between its fields
PatternText(pat) ==
    <<Tok("Section", 0, pat.section), Tok("Row", 0, pat.row),
      Tok("text", 0, "Clear view"),
      Tok("$", pat.amt, IF pat.incl THEN "incl" ELSE ""),
      Tok("tickets", pat.qty, ""), Tok("text", 0, "together"),
      Tok("score", pat.score, pat.word)>>

RECURSIVE PatternsText(_, _)
PatternsText(patterns, i) ==
    IF i > Len(patterns) THEN <<>>
    ELSE PatternText(patterns[i]) \o PatternsText(patterns, i + 1)

\* the block: the patterns in a row, after a "View 12 Listings" when lead
SegBlock(input) ==
    (IF input.lead THEN <<Tok("text", 0, "View 12 Listings")>> ELSE <<>>)
    \o PatternsText(input.patterns, 1)

SegInputs ==
    [lead : BOOLEAN,
     patterns : UNION {[1..n -> SegPatterns] : n \in 0..MaxPatterns}]

InitSegmentation ==
    /\ InitMain
    /\ qChunk = <<>>
    /\ qListing = None
    /\ qResult = None
    /\ fpInput = <<>>
    /\ fpResult = None
    /\ segInput \in SegInputs
    /\ segResult = None

\* lines 390-410 on the block
ApplySegmentation ==
    /\ segResult = None
    /\ segResult' = Some(parse_blocks(<<SegBlock(segInput)>>, URL))
    /\ UNCHANGED <<configVars, pc, hbVars, naps, storeVars, clock, scrapeVars,
                   newVars, digestVars, raisedAt, qChunk, qListing, qResult, fpInput,
                   fpResult, segInput>>

NextSegmentation == ApplySegmentation

SpecSegmentation == InitSegmentation /\ [][NextSegmentation]_vars

(***************************************************************************)
(* Properties.                                                             *)
(***************************************************************************)
\* a step of this cycle handed a message to pushover_notify
Sent(outcome) == outcome \in {"delivered", "raised"}

Elapsed == clock - START_TIME

\* C1, as stated: whenever a cycle scrapes the very listings the cycle before
\* it scraped, it sends no NEW notification and leaves the size of seen as it
\* was after that cycle.
C1_AnyTwoCycles ==
    sameAsPrev =>
        /\ newOutcome = "none"
        /\ Cardinality(seen) = Cardinality(seenAtStart)

\* C1, amended: whenever a cycle scrapes the very listings the cycle before it
\* scraped, and delivery of the NEW notification did not raise in that cycle,
\* it has no new hits, sends no NEW notification and leaves the size of seen
\* as it was after that cycle.
C1_IdempotentDedup ==
    (sameAsPrev /\ prevNew # "raised") =>
        /\ new_hits = <<>>
        /\ newOutcome = "none"
        /\ Cardinality(seen) = Cardinality(seenAtStart)

\* a cycle is over that scraped again the qualifying listings the cycle
\* before it had alerted
C1_Witness ==
    /\ pc = "sleep"
    /\ sameAsPrev
    /\ prevNew = "delivered"
    /\ qualifying # <<>>
    /\ raisedAt = ""

\* C2: no fingerprint is reported twice by delivered NEW notifications:
\* neither twice among the hits of one, nor among the new hits of a cycle
\* after a notification with it was delivered.
C2_NoDuplicateAlerts ==
    /\ alertedTwice = {}
    /\ pc = "notify_new" => HitFingerprints(new_hits) \cap alerted = {}

\* C3: no digest is sent in a cycle whose elapsed time since the start of the
\* process is below the digest interval, and a cycle that reaches the digest
\* check at or after it, no digest having been sent so far, sends one.
C3_DigestCadence ==
    /\ Sent(digestOutcome) => Elapsed >= DIGEST_INTERVAL_SECONDS
    /\ (digestOutcome = "notdue" /\ last_digest_ts = 0)
          => Elapsed < DIGEST_INTERVAL_SECONDS

ScrapedListings == UNION {{r[2][i] : i \in 1..Len(r[2])} : r \in ScrapeTable}

\* the Listing a fingerprint was computed from
ListingOfFingerprint(fp) == CHOOSE l \in ScrapedListings : listing_fingerprint(l) = fp

\* C5: every fingerprint added to seen since load_seen() is that of a listing
\* that qualifies and that was a line of a delivered NEW notification.
C5_SeenOnlyAlerted ==
    \A fp \in seen \ loadedSeen :
        /\ qualifies(ListingOfFingerprint(fp))
        /\ fp \in shown

\* C6: qualifies(l) is false when the quantity is nonzero and below
\* MIN_TICKETS, whatever the score; otherwise (quantity 0 included), for a
\* listing with a score, it is true exactly when the score is at least
\* MIN_VALUE_SCORE.
C6_Qualifies ==
    qResult # None =>
        LET l == qListing[1]
        IN  /\ (l.qty # 0 /\ l.qty < MIN_TICKETS) => ~qResult[1]
            /\ ((l.qty = 0 \/ l.qty >= MIN_TICKETS) /\ l.value_score # None)
                  => (qResult[1] <=> l.value_score[1] >= MIN_VALUE_SCORE)

\* a listing of unknown quantity whose score is the threshold was accepted
C6_Witness ==
    /\ qResult = Some(TRUE)
    /\ qListing[1].qty = 0
    /\ qListing[1].value_score = Some(MIN_VALUE_SCORE)

\* the deal-label allow-list of C7, and the lower case of the phrases
DealLabelAllowList == {"great deal"}

LowerCase(phrase) ==
    CASE phrase \in {"Great deal", "GREAT DEAL"} -> "great deal"
      [] phrase = "Fair price" -> "fair price"
      [] OTHER -> phrase

\* the deal label the text of the chunk carries ("" for none)
DealLabel(chunk) ==
    LET m == FirstOf(chunk, "text") IN IF m = None THEN "" ELSE m[1].x

\* C7: a listing that passes the quantity check and has no score is accepted
\* exactly when its deal label is, ignoring case, on the allow-list; a listing
\* whose score is below the threshold is rejected whatever its label.
C7_LabelFallback ==
    qResult # None =>
        LET l == qListing[1]
        IN  /\ ((l.qty = 0 \/ l.qty >= MIN_TICKETS) /\ l.value_score = None)
                  => (qResult[1] <=>
                        LowerCase(DealLabel(qChunk)) \in DealLabelAllowList)
            /\ (l.value_score # None /\ l.value_score[1] < MIN_VALUE_SCORE)
                  => ~qResult[1]

\* C8: a cycle that reaches the digest check with the interval elapsed hands
\* one digest to pushover_notify; with no qualifying listing it is the "no
\* qualifying listings" message, else it counts all the qualifying listings of
\* the cycle and each of its lines is one of them, new hit or not.
C8_EmptyDigest ==
    [][(/\ pc = "digest"
        /\ pc' = "sleep"
        /\ clock - last_digest_ts >= DIGEST_INTERVAL_SECONDS)
       => /\ Sent(digestOutcome')
          /\ qualifying = <<>> =>
                (digestMsg'.kind = "empty" /\ digestMsg'.lines = <<>>)
          /\ qualifying # <<>> =>
                /\ digestMsg'.kind = "top"
                /\ digestMsg'.total = Len(qualifying)
                /\ Len(digestMsg'.lines)
                     = (IF Len(qualifying) < DIGEST_TOP_N
                        THEN Len(qualifying) ELSE DIGEST_TOP_N)
                /\ \A i \in 1..Len(digestMsg'.lines) :
                      \E j \in 1..Len(qualifying) :
                          digestMsg'.lines[i] = format_listing(qualifying[j])]_vars

\* a digest for a page that has listings, none of them qualifying, was delivered
C8_Witness ==
    /\ pc = "sleep"
    /\ digestOutcome = "delivered"
    /\ digestMsg.kind = "empty"
    /\ listings # None
    /\ listings[1] # <<>>
    /\ qualifying = <<>>

\* the order of C9 on the lines of a notification: a comes strictly before b
ScoreOfLine(a) == IF a.score = None THEN 0 ELSE a.score[1]

PriceParses(a) == a.price.txt = "$"

StrictlyBefore(a, b) ==
    \/ ScoreOfLine(a) > ScoreOfLine(b)
    \/ /\ ScoreOfLine(a) = ScoreOfLine(b)
       /\ PriceParses(a)
       /\ (~PriceParses(b) \/ a.price.amt < b.price.amt)

Occurrences(s, x) == Cardinality({i \in 1..Len(s) : s[i] = x})

\* lines are the first k of src in that order
FirstK(lines, src, k) ==
    LET all == FormatLines(src)
    IN  /\ Len(lines) = (IF Len(src) < k THEN Len(src) ELSE k)
        /\ \A i, j \in 1..Len(lines) : i < j => ~StrictlyBefore(lines[j], lines[i])
        /\ \A i \in 1..Len(lines) :
              Occurrences(lines, lines[i]) <= Occurrences(all, lines[i])
        /\ \A i \in 1..Len(all) :
              \/ Occurrences(lines, all[i]) = Occurrences(all, all[i])
              \/ \A j \in 1..Len(lines) : ~StrictlyBefore(all[i], lines[j])

\* C9: the lines of a NEW notification are the first 12 of the new hits, and
\* those of a digest the first DIGEST_TOP_N of the qualifying listings, by
\* descending score, then ascending numeric price, a price that does not
\* parse after the prices of the same score that do.
C9_SortedTopK ==
    /\ newOutcome # "none" => FirstK(newLines, HitListings(new_hits), NEW_TOP_K)
    /\ digestMsg.kind = "top" => FirstK(digestMsg.lines, qualifying, DIGEST_TOP_N)

\* a NEW notification cut to 12 lines was delivered, with a line of unknown
\* price below a line of the same score whose price parses
C9_Witness ==
    /\ newOutcome = "delivered"
    /\ Len(new_hits) > NEW_TOP_K
    /\ Len(newLines) = NEW_TOP_K
    /\ \E i, j \in 1..Len(newLines) :
          /\ i < j
          /\ ScoreOfLine(newLines[i]) = ScoreOfLine(newLines[j])
          /\ PriceParses(newLines[i])
          /\ ~PriceParses(newLines[j])

\* C10: without an event URL main never enters the loop: no scrape is
\* started, no notification is sent, seen is neither loaded nor saved; and main
\* never ends: it keeps sleeping and the heartbeat keeps logging.
C10_NoUrlNeverPolls ==
    /\ [](EVENT_URL = "" =>
            /\ pc \in {"start", "idle"}
            /\ cycle = 0
            /\ listings = None
            /\ newOutcome = "none"
            /\ digestOutcome = "none"
            /\ ~loaded
            /\ seen = {}
            /\ stateFile = fileAtStart
            /\ pc = "idle" => hbStarted)
    /\ EVENT_URL = "" => ([]<><<IdleSleep>>_vars /\ []<><<Heartbeat>>_vars)

\* the idle loop has slept and the heartbeat has logged
C10_Witness ==
    /\ EVENT_URL = ""
    /\ pc = "idle"
    /\ naps = 1
    /\ hbLogs = 1

\* the fields of a Listing, and those in which two Listings differ
ListingFields == {"section", "row", "qty", "price_incl_fees", "value_score",
                  "rating_word", "url"}

DifferingFields(a, b) == {f \in ListingFields : a[f] # b[f]}

\* C11: two Listings with the same fields have the same fingerprint, two
\* Listings that differ in a field have different fingerprints, and a
\* qualifying Listing that differs in exactly one field from one whose
\* fingerprint is in seen is a new hit (so that the NEW notification of lines
\* 462-470 is sent for it).
C11_FingerprintIdentity ==
    fpResult # None =>
        LET r == fpResult[1]
        IN  /\ DifferingFields(r.a, r.b) = {} => r.fa = r.fb
            /\ DifferingFields(r.a, r.b) # {} => r.fa # r.fb
            /\ (Cardinality(DifferingFields(r.a, r.b)) = 1 /\ qualifies(r.b))
                  => r.hits = <<<<r.fb, r.b>>>>

\* the second Listing qualifies and is the first one at another price; it is
\* a new hit
C11_Witness ==
    /\ fpResult # None
    /\ DifferingFields(fpResult[1].a, fpResult[1].b) = {"price_incl_fees"}
    /\ qualifies(fpResult[1].a)
    /\ qualifies(fpResult[1].b)
    /\ Len(fpResult[1].hits) = 1

\* C12: seen is loaded once, when main starts, and from then on only grows:
\* no step, in a cycle that completes, that raises or whose save fails,
\* removes a fingerprint from seen, so seen always holds what it held in any
\* earlier state, what load_seen() returned included.
C12_SeenGrowOnly ==
    [][/\ seen \subseteq seen'
       /\ loaded => (loaded' /\ loadedSeen' = loadedSeen)
       /\ loaded' => loadedSeen' \subseteq seen']_vars

\* seen was loaded with a fingerprint in it, grew in a cycle whose save_seen
\* failed, and a later cycle raised
C12_Witness ==
    /\ loadedSeen # {}
    /\ seen # loadedSeen
    /\ loadedSeen \subseteq seen
    /\ stateFile.data # seen
    /\ raisedAt = "scrape"
    /\ pc = "sleep"

\* the Listing of a pattern scraped from URL
PatternListing(pat) ==
    Listing(pat.section, pat.row, pat.qty,
            PriceText(pat.amt, IF pat.incl THEN " incl. fees" ELSE ""),
            Some(pat.score), Some(pat.word), URL)

\* C13: from a block that is N well-formed listing patterns in a row,
\* split_into_listing_chunks, the extractors and the plausibility gate build
\* exactly N Listings, the i-th with the section, row, price, quantity and
\* score of the i-th pattern; from a block without a Section anchor they build
\* none.
C13_SegmentationCount ==
    segResult # None =>
        /\ Len(segResult[1]) = Len(segInput.patterns)
        /\ \A i \in 1..Len(segInput.patterns) :
              segResult[1][i] = PatternListing(segInput.patterns[i])

\* five patterns, one of them twice, after a leading text, gave five Listings
C13_Witness ==
    /\ segResult # None
    /\ segInput.lead
    /\ Len(segInput.patterns) = 5
    /\ segInput.patterns[1] = segInput.patterns[4]
    /\ segInput.patterns[1] # segInput.patterns[2]
    /\ Len(segResult[1]) = 5

\* C14: the digest check changes last_digest_ts only when it delivers a
\* digest; a check whose delivery raises leaves it as it was (so that the
\* digest is due again at the next check).
C14_TimerResetOnlyByDelivery ==
    [][(pc = "digest" /\ pc' = "sleep" /\ last_digest_ts' # last_digest_ts)
          => digestOutcome' = "delivered"]_vars

\* C15: once a digest has been sent, at time t, a digest check before
\* t + DIGEST_INTERVAL_SECONDS sends none, and every digest check at or after
\* it sends one (there being none between it and the digest of t), whatever
\* the new hits of the cycle.  A cycle that raises before its digest check
\* has none.
C15_CadenceAfterFirst ==
    [][(pc = "digest" /\ pc' = "sleep" /\ digestTimes # <<>>)
          => (Sent(digestOutcome')
                <=> clock >= digestTimes[1] + DIGEST_INTERVAL_SECONDS)]_vars

\* the second digest was sent one interval after the first, in a cycle that
\* had sent a NEW notification
C15_Witness ==
    /\ Len(digestTimes) = 2
    /\ digestTimes[1] = digestTimes[2] + DIGEST_INTERVAL_SECONDS
    /\ digestOutcome = "delivered"
    /\ newOutcome = "delivered"
    /\ clock = digestTimes[1]
    /\ raisedAt = ""

\* the fingerprints of seen that the state file does not hold
Unsaved == seen \ load_seen(stateFile)

\* C16: in a cycle whose NEW notification was delivered and whose save_seen
\* failed, nothing is raised by the save, the cycle goes on to its digest check
\* and the fingerprints of its new hits stay in seen; and no later cycle has a
\* fingerprint of seen that the file lacks among its new hits.
C16_FailedSaveNotFatal ==
    /\ (newOutcome = "delivered" /\ stateFile # [ok |-> TRUE, data |-> seen]) =>
          /\ raisedAt \in {"", "digest"}
          /\ pc \in {"digest", "sleep", "scrape"}
          /\ pc # "digest" => digestOutcome # "none"
          /\ HitFingerprints(new_hits) \subseteq seen
    /\ pc = "notify_new" => HitFingerprints(new_hits) \cap Unsaved = {}

\* a cycle is over that scraped again, and did not alert, the listings whose
\* fingerprints the cycle before it had failed to save
C16_Witness ==
    /\ pc = "sleep"
    /\ sameAsPrev
    /\ prevNew = "delivered"
    /\ raisedAt = ""
    /\ newOutcome = "none"
    /\ qualifying # <<>>
    /\ Fingerprints(qualifying) \subseteq Unsaved

\* the cycles that the clock lets be followed by another one
FollowedCycles == 1..(MaxElapsed \div CHECK_INTERVAL_SECONDS)

\* C17: once the loop has started, cycle n + 1 starts exactly n sleeps of
\* CHECK_INTERVAL_SECONDS after the first one, whatever cycles raised; the
\* step that follows the end of a cycle, raised or not, is one sleep of
\* CHECK_INTERVAL_SECONDS that leads to the start of the next cycle; and every
\* cycle, raised or not, is followed by the next one.
C17_FixedSleepEveryCycle ==
    /\ [](cycle > 0 =>
            Elapsed = (IF pc = "scrape" THEN cycle ELSE cycle - 1) * CHECK_INTERVAL_SECONDS)
    /\ [](raisedAt # "" => pc \in {"sleep", "scrape"})
    /\ [][pc = "sleep" =>
            /\ pc' \in {"sleep", "scrape"}
            /\ cycle' = cycle
            /\ pc' = "scrape" => clock' = clock + CHECK_INTERVAL_SECONDS]_vars
    /\ [][cycle' # cycle => (pc = "scrape" /\ cycle' = cycle + 1)]_vars
    /\ \A n \in FollowedCycles :
          /\ (cycle = n /\ pc \in {"notify_new", "digest"}) ~> (pc = "sleep" /\ cycle = n)
          /\ (cycle = n /\ raisedAt # "") ~> (cycle = n + 1)
          /\ (cycle = n /\ pc = "sleep") ~> (cycle = n + 1)

\* the cycle after one that raised in its scrape has started, one sleep later
C17_Witness ==
    /\ cycle = 3
    /\ pc = "digest"
    /\ prevNew = "raised"
    /\ Elapsed = 2 * CHECK_INTERVAL_SECONDS

\* what main() reads and writes
mainVars ==
    <<pc, naps, stateFile, seen, loaded, loadedSeen, clock, last_digest_ts, cycle,
      listings, qualifying, new_hits, newOutcome, newLines, digestOutcome, digestMsg,
      digestTimes, raisedAt>>

\* C18: whatever the interleaving of the heartbeat with main, a step of the
\* heartbeat is possible whatever seen and the digest timer are and leaves
\* them, and all that main works on, as they were; seen and the state file are
\* written only by main, at its start and in its NEW step; a scrape is started
\* only by main at the head of its loop and a notification handed to Pushover
\* only by main in its NEW step or its digest check, one at a time.
C18_SingleWorker ==
    /\ [](hbStarted => ENABLED Heartbeat)
    /\ [][/\ hbLogs' # hbLogs => UNCHANGED mainVars
          /\ (seen' # seen \/ stateFile' # stateFile)
                => (hbLogs' = hbLogs /\ pc \in {"start", "notify_new"})
          /\ last_digest_ts' # last_digest_ts
                => (hbLogs' = hbLogs /\ pc \in {"start", "digest"})
          /\ cycle' # cycle => (hbLogs' = hbLogs /\ pc = "scrape")
          /\ (pc = "notify_new" /\ pc' # pc)
                => (hbLogs' = hbLogs /\ Sent(newOutcome') /\ digestOutcome' = digestOutcome)
          /\ (Sent(digestOutcome') /\ digestOutcome' # digestOutcome)
                => (hbLogs' = hbLogs /\ pc = "digest" /\ newOutcome' = newOutcome)
          /\ (Sent(newOutcome') /\ newOutcome' # newOutcome)
                => pc = "notify_new"]_vars

\* the heartbeat has logged, and main is in its second cycle, between a
\* delivered NEW notification and its digest check, seen and the digest timer
\* being set
C18_Witness ==
    /\ hbLogs = 1
    /\ cycle = 2
    /\ pc = "digest"
    /\ newOutcome = "delivered"
    /\ seen # {}
    /\ last_digest_ts # 0

\* C19: a cycle whose NEW delivery raised leaves seen as it was, none of the
\* fingerprints of its new hits in it; the cycle after it, when its scrape
\* returns, has among its new hits every one of them that is still among its
\* qualifying listings; a delivered NEW notification puts the fingerprints of
\* all its hits in seen; and that next cycle does come, its NEW notification
\* being sent when one of them is still there.
C19_NoAlertLostToFailure ==
    /\ [](raisedAt = "new" =>
            /\ newOutcome = "raised"
            /\ seen = seenAtStart
            /\ HitFingerprints(new_hits) \cap seen = {})
    /\ []((prevNew = "raised" /\ listings # None) =>
            (raisedHits \cap Fingerprints(qualifying)) \subseteq HitFingerprints(new_hits))
    /\ [](newOutcome = "delivered" => HitFingerprints(new_hits) \subseteq (seen \cap alerted))
    /\ \A n \in FollowedCycles :
          (cycle = n /\ raisedAt = "new")
             ~> (/\ cycle = n + 1
                 /\ prevNew = "raised"
                 /\ pc = "sleep"
                 /\ (listings # None /\ raisedHits \cap Fingerprints(qualifying) # {})
                       => Sent(newOutcome))

\* the listing whose NEW delivery had raised was a new hit again in the next
\* cycle, was delivered, and its fingerprint is in seen
C19_Witness ==
    /\ prevNew = "raised"
    /\ raisedHits # {}
    /\ newOutcome = "delivered"
    /\ raisedHits \subseteq HitFingerprints(new_hits)
    /\ raisedHits \subseteq seen
    /\ pc = "sleep"

====
